---- MODULE Spec2Model ----
(***************************************************************************)
(* TegrastatsMonitor (src/tegrastats_sampler.py): one foreground control   *)
(* flow calling start / stop / clear_samples / get_samples / measure_idle  *)
(* / integrate_energy, and the background reader threads the session has   *)
(* created, interleaved step by step.                                      *)
(*                                                                         *)
(* Numbers.  Timestamps are whole clock ticks (seconds) and powers whole   *)
(* milliwatts; Python's floats are modelled as exact rationals.  An energy *)
(* is kept as a whole number of 1/EnergyDen joule (((x/1000)+(y/1000))/2   *)
(* times dt is (x+y)*dt/2000), and the idle average as the pair            *)
(* <<sum, count>>.                                                         *)
(*                                                                         *)
(* Environment.  time.time() is a clock that never runs backwards and may  *)
(* give the same value twice (Tick).  A timeout is a choice: terminate()   *)
(* is obeyed or ignored, wait(timeout=2) and join(timeout=2) return in     *)
(* time or give up.  The tool may end by itself at any time, and its       *)
(* output ends when it has exited (of itself, terminated or killed).       *)
(*                                                                         *)
(* Ghost state.  Every sample carries, beside the (timestamp, power_mw)    *)
(* tuple of the code, the serial number n of its append; nApp and nClr     *)
(* count the appends so far and the appends before the last clear.  A      *)
(* stop() remembers in killed that it had to kill the tool; a reader task  *)
(* has late set where a specification records its appends after the       *)
(* stop() of its session (RdAppendLate).  The                              *)
(* prev of a get_samples is "clear_samples" when the caller went from the  *)
(* return of clear_samples straight into it (GetAfterClear).  ret          *)
(* is the outcome of the foreground call that has just returned (its n0 is *)
(* nClr at the return of measure_idle): a call returns into a state of its *)
(* own (fg.pc = "returned"), which Resume leaves before anything else      *)
(* moves.  Resume changes no variable of the program, so no interleaving   *)
(* of the program is lost.                                                 *)
(*                                                                         *)
(* The arguments of get_samples and integrate_energy are first read after  *)
(* the copy of the buffer has been taken (lines 153-157, 210-224), in      *)
(* steps that touch no shared state; they are drawn where they are read.   *)
(***************************************************************************)
EXTENDS Integers, Sequences, FiniteSets, TLC

\* ------------------------------------------------------------ bounds
MaxTime == 1         \* the clock runs over 0..MaxTime
MaxStarts == 2       \* successful launches of the tool (subprocesses, reader threads)
MaxAppends == 3      \* samples the readers produce in one behaviour
Capacity == 2        \* deque(maxlen=100000), scaled down
CalcMaxLen == 3      \* longest buffer of the integration specification
CalcMaxTime == 5     \* timestamps and window bounds of the integration specification

\* ------------------------------------------------------------ values
None == 0            \* self.process / self.thread / lock owner: nothing
Main == 99           \* lock owner: the foreground control flow
NoMatch == 0 - 1     \* _parse_power's None; an omitted bound of get_samples
EnergyDen == 2000    \* an energy e stands for e / 2000 joule

Times == 0..MaxTime
Idles == {0, 600}
Bounds == Times \cup {NoMatch}
\* the bounds of a get_samples called from outside: at most one is given
\* (measure_idle and integrate_energy call it with both)
Queries == ({NoMatch} \X Bounds) \cup (Bounds \X {NoMatch})

CalcTimes == 0..CalcMaxTime
CalcPowers == {500, 1000, 2000, 3000}
CalcIdles == {0, 600, 1000}

Absent == [k |-> "absent", cur |-> 0, avg |-> 0]
NonDigit == [k |-> "nondigit", cur |-> 0, avg |-> 0]
Pair(c, a) == [k |-> "pair", cur |-> c, avg |-> a]
FieldVals == {Absent, NonDigit, Pair(500, 700), Pair(2000, 700)}
\* a line of the tool's output: do its bytes decode, and what follows the
\* field names VDD_IN and POM_5V_IN in it
Lines == [ok : {TRUE}, vdd : FieldVals, pom : FieldVals]
             \cup {[ok |-> FALSE, vdd |-> Absent, pom |-> Absent]}
\* the decoded lines given to the parser alone: every current/average pair
\* over these readings (0, and the 2594/2594 of the docstring's example)
ParseVals == {0, 500, 2594}
ParseLines ==
    LET F == {Absent, NonDigit} \cup {Pair(c, a) : c \in ParseVals,
                                                  a \in ParseVals}
    IN  [ok : {TRUE}, vdd : F, pom : F]

VARIABLES running, process, thread, samples, lock, now, procs, rd, fg, ret,
          nApp, nClr

vars == <<running, process, thread, samples, lock, now, procs, rd, fg, ret,
          nApp, nClr>>

\* ------------------------------------------------------------ pure functions

\* ParsePower taking group(2), the average member of the pair
ParsePowerAvg(line) ==
    IF line.vdd.k = "pair" THEN line.vdd.avg
    ELSE IF line.pom.k = "pair" THEN line.pom.avg
    ELSE NoMatch

\* re.search(r'VDD_IN\s+(\d+)/(\d+)') first, then POM_5V_IN; group(1)
ParsePower(line) ==
    IF line.vdd.k = "pair" THEN line.vdd.cur
    ELSE IF line.pom.k = "pair" THEN line.pom.cur
    ELSE NoMatch

\* DequeAppend as a bounded queue that refuses a sample when it is full
DequeAppendRefuse(q, s) ==
    IF Len(q) >= Capacity THEN q ELSE Append(q, s)

\* deque.append with maxlen: the oldest sample goes when the deque is full
DequeAppend(q, s) ==
    IF Len(q) >= Capacity THEN Append(Tail(q), s) ELSE Append(q, s)

\* FilterSamples without the upper bound
FilterSamplesNoEnd(copy, t_start, t_end) ==
    IF t_start # NoMatch
    THEN SelectSeq(copy, LAMBDA s : s.t >= t_start) ELSE copy

\* the two list comprehensions of get_samples, on the copy
FilterSamples(copy, t_start, t_end) ==
    LET s1 == IF t_start # NoMatch
              THEN SelectSeq(copy, LAMBDA s : s.t >= t_start) ELSE copy
    IN  IF t_end # NoMatch
        THEN SelectSeq(s1, LAMBDA s : s.t <= t_end) ELSE s1

Max0(x) == IF x > 0 THEN x ELSE 0

\* Trapezoid with the clamp put on the average of a pair, not on its ends
RECURSIVE TrapezoidClampAfter(_, _, _, _)
TrapezoidClampAfter(sel, i, idle_mw, energy_j) ==
    IF i >= Len(sel) THEN energy_j
    ELSE LET dt == sel[i + 1].t - sel[i].t
         IN  TrapezoidClampAfter(sel, i + 1, idle_mw,
                energy_j + Max0(sel[i].p + sel[i + 1].p - 2 * idle_mw) * dt)

\* the for loop of integrate_energy from index i on, energy_j accumulated
RECURSIVE Trapezoid(_, _, _, _)
Trapezoid(sel, i, idle_mw, energy_j) ==
    IF i >= Len(sel) THEN energy_j
    ELSE LET p1_active == Max0(sel[i].p - idle_mw)
             p2_active == Max0(sel[i + 1].p - idle_mw)
             dt == sel[i + 1].t - sel[i].t
         IN  Trapezoid(sel, i + 1, idle_mw,
                       energy_j + (p1_active + p2_active) * dt)

\* IntegrateEnergy that carries the first and the last selected power out
\* to the ends of the window
IntegrateEnergyWindow(sel, t_start, t_end, idle_mw) ==
    IF Len(sel) < 2
    THEN IF Len(sel) = 1
         THEN Max0(2 * (sel[1].p - idle_mw) * (t_end - t_start))
         ELSE 0
    ELSE Trapezoid(sel, 1, idle_mw, 0)
             + 2 * Max0(sel[1].p - idle_mw) * (sel[1].t - t_start)
             + 2 * Max0(sel[Len(sel)].p - idle_mw) * (t_end - sel[Len(sel)].t)

\* IntegrateEnergy without the max(0, ...) of the one-sample case
IntegrateEnergyNoClamp(sel, t_start, t_end, idle_mw) ==
    IF Len(sel) < 2
    THEN IF Len(sel) = 1
         THEN 2 * (sel[1].p - idle_mw) * (t_end - t_start)
         ELSE 0
    ELSE Trapezoid(sel, 1, idle_mw, 0)

\* integrate_energy after get_samples, in 1/EnergyDen joule
IntegrateEnergy(sel, t_start, t_end, idle_mw) ==
    IF Len(sel) < 2
    THEN IF Len(sel) = 1
         THEN Max0(2 * (sel[1].p - idle_mw) * (t_end - t_start))
         ELSE 0
    ELSE Trapezoid(sel, 1, idle_mw, 0)

\* IntegrateWarns silent on an empty selection
IntegrateWarnsOne(sel) == Len(sel) = 1

\* the "Warning: Only N samples" print of integrate_energy
IntegrateWarns(sel) == Len(sel) < 2

RECURSIVE SumPowers(_)
SumPowers(sel) == IF sel = <<>> THEN 0 ELSE Head(sel).p + SumPowers(Tail(sel))

\* sum(powers) / len(powers)
AvgPower(sel) == <<SumPowers(sel), Len(sel)>>

\* ------------------------------------------------------------ records

NoRet == [op |-> "none", status |-> "none", err |-> "", energy |-> 0,
          avg |-> <<0, 1>>, warned |-> FALSE, slept |-> FALSE,
          a |-> NoMatch, b |-> NoMatch, idle |-> 0, snap |-> <<>>,
          sel |-> <<>>, n0 |-> 0, prev |-> "none", killed |-> FALSE,
          line |-> [ok |-> TRUE, vdd |-> Absent, pom |-> Absent],
          power |-> NoMatch]

FgIdle == [pc |-> "idle", op |-> "none", a |-> NoMatch, b |-> NoMatch,
           snap |-> <<>>, prev |-> "none", killed |-> FALSE]

FgReturned == [FgIdle EXCEPT !.pc = "returned"]

\* late: a history of the task, kept where a specification observes it:
\* it has appended a sample since its session was stopped
NewReader == [pc |-> "loop", h |-> None, power |-> 0, ts |-> 0,
              late |-> FALSE]

\* stop() has cleared the running flag of the session of reader task i
Stopped(i) == i < Len(rd) \/ ~running

Returned(op, status, err) ==
    [NoRet EXCEPT !.op = op, !.status = status, !.err = err]

\* no call has just returned: the caller has taken the last outcome (the
\* clock and the readers move between two such observations)
Unobserved == fg.pc # "returned"

\* readers that hold a parsed power they have not appended yet
Pending == {i \in DOMAIN rd : rd[i].pc \in {"stamp", "lock", "append"}}

\* ------------------------------------------------------------ initial state

Init ==
    /\ running = FALSE
    /\ process = None
    /\ thread = None
    /\ samples = <<>>
    /\ lock = None
    /\ now = 0
    /\ procs = <<>>
    /\ rd = <<>>
    /\ fg = FgIdle
    /\ ret = NoRet
    /\ nApp = 0
    /\ nClr = 0

\* ------------------------------------------------------------ the clock

Tick ==
    /\ Unobserved
    /\ now < MaxTime
    /\ now' = now + 1
    /\ UNCHANGED <<running, process, thread, samples, lock, procs, rd, fg,
                   ret, nApp, nClr>>

\* ------------------------------------------------------------ the tool

\* lines 92-97: the subprocess ends by itself (it fails, or is killed from
\* outside); its output stream ends with it
ToolExits(k) ==
    /\ Unobserved
    /\ procs[k] = "alive"
    /\ procs' = [procs EXCEPT ![k] = "exited"]
    /\ UNCHANGED <<running, process, thread, samples, lock, now, rd, fg, ret,
                   nApp, nClr>>

\* ------------------------------------------------------------ reader thread

\* line 65: while self.running
RdLoop(i) ==
    /\ Unobserved
    /\ rd[i].pc = "loop"
    /\ rd' = [rd EXCEPT ![i].pc = IF running THEN "eval" ELSE "done"]
    /\ UNCHANGED <<running, process, thread, samples, lock, now, procs, fg,
                   ret, nApp, nClr>>

\* line 67: self.process.stdout is evaluated; with self.process None that
\* raises AttributeError, caught at line 79
RdEval(i) ==
    /\ Unobserved
    /\ rd[i].pc = "eval"
    /\ rd' = IF process = None
             THEN [rd EXCEPT ![i].pc = "except"]
             ELSE [rd EXCEPT ![i].pc = "readline", ![i].h = process]
    /\ UNCHANGED <<running, process, thread, samples, lock, now, procs, fg,
                   ret, nApp, nClr>>

\* RdLine that leaves the loop on a line without a power reading
RdLineEndsOnNoMatch(i, line) ==
    /\ Unobserved
    /\ rd[i].pc = "readline"
    /\ procs[rd[i].h] = "alive"
    /\ LET power_mw == ParsePower(line)
       IN  IF ~line.ok
           THEN rd' = [rd EXCEPT ![i].pc = "except", ![i].h = None]
           ELSE IF power_mw = NoMatch
           THEN rd' = [rd EXCEPT ![i].pc = "done", ![i].h = None]
           ELSE /\ nApp + Cardinality(Pending) < MaxAppends
                /\ rd' = [rd EXCEPT ![i].pc = "stamp", ![i].h = None,
                                    ![i].power = power_mw]
    /\ UNCHANGED <<running, process, thread, samples, lock, now, procs, fg,
                   ret, nApp, nClr>>

\* lines 67-72: readline() gives a line of a live tool; the line is decoded
\* (UnicodeDecodeError goes to line 79) and parsed
RdLine(i, line) ==
    /\ Unobserved
    /\ rd[i].pc = "readline"
    /\ procs[rd[i].h] = "alive"
    /\ LET power_mw == ParsePower(line)
       IN  IF ~line.ok
           THEN rd' = [rd EXCEPT ![i].pc = "except", ![i].h = None]
           ELSE IF power_mw = NoMatch
           THEN rd' = [rd EXCEPT ![i] = [NewReader EXCEPT
                                            !.late = rd[i].late]]
           ELSE /\ nApp + Cardinality(Pending) < MaxAppends
                /\ rd' = [rd EXCEPT ![i].pc = "stamp", ![i].h = None,
                                    ![i].power = power_mw]
    /\ UNCHANGED <<running, process, thread, samples, lock, now, procs, fg,
                   ret, nApp, nClr>>

\* line 67: readline() raises (a failing read); caught at line 79
RdReadError(i) ==
    /\ Unobserved
    /\ rd[i].pc = "readline"
    /\ rd' = [rd EXCEPT ![i].pc = "except", ![i].h = None]
    /\ UNCHANGED <<running, process, thread, samples, lock, now, procs, fg,
                   ret, nApp, nClr>>

\* RdEof that also clears the running flag of the session
RdEofClearsFlag(i) ==
    /\ Unobserved
    /\ rd[i].pc = "readline"
    /\ procs[rd[i].h] # "alive"
    /\ rd' = [rd EXCEPT ![i].pc = "done", ![i].h = None]
    /\ running' = FALSE
    /\ UNCHANGED <<process, thread, samples, lock, now, procs, fg, ret, nApp,
                   nClr>>

\* lines 67-69: readline() gives b'' at the end of the stream; break
RdEof(i) ==
    /\ Unobserved
    /\ rd[i].pc = "readline"
    /\ procs[rd[i].h] # "alive"
    /\ rd' = [rd EXCEPT ![i].pc = "done", ![i].h = None]
    /\ UNCHANGED <<running, process, thread, samples, lock, now, procs, fg,
                   ret, nApp, nClr>>

\* line 75: timestamp = time.time()
RdStamp(i) ==
    /\ Unobserved
    /\ rd[i].pc = "stamp"
    /\ rd' = [rd EXCEPT ![i].pc = "lock", ![i].ts = now]
    /\ UNCHANGED <<running, process, thread, samples, lock, now, procs, fg,
                   ret, nApp, nClr>>

\* RdLock that does not wait for the lock to be free
RdLockBarge(i) ==
    /\ Unobserved
    /\ rd[i].pc = "lock"
    /\ lock' = i
    /\ rd' = [rd EXCEPT ![i].pc = "append"]
    /\ UNCHANGED <<running, process, thread, samples, now, procs, fg, ret,
                   nApp, nClr>>

\* line 76: with self.lock, entered
RdLock(i) ==
    /\ Unobserved
    /\ rd[i].pc = "lock"
    /\ lock = None
    /\ lock' = i
    /\ rd' = [rd EXCEPT ![i].pc = "append"]
    /\ UNCHANGED <<running, process, thread, samples, now, procs, fg, ret,
                   nApp, nClr>>

\* RdAppend with get_samples handing out the deque itself, not a copy of
\* it: the append shows in the list the caller is working on
RdAppendAliased(i) ==
    /\ Unobserved
    /\ rd[i].pc = "append"
    /\ samples' = DequeAppend(samples,
                     [t |-> rd[i].ts, p |-> rd[i].power, n |-> nApp + 1])
    /\ nApp' = nApp + 1
    /\ lock' = None
    /\ rd' = [rd EXCEPT ![i] = [NewReader EXCEPT !.late = rd[i].late]]
    /\ fg' = IF fg.pc = "gs_filter" THEN [fg EXCEPT !.snap = samples'] ELSE fg
    /\ UNCHANGED <<running, process, thread, now, procs, ret, nClr>>

\* line 77: self.samples.append((timestamp, power_mw)), and the lock released
RdAppend(i) ==
    /\ Unobserved
    /\ rd[i].pc = "append"
    /\ samples' = DequeAppend(samples,
                     [t |-> rd[i].ts, p |-> rd[i].power, n |-> nApp + 1])
    /\ nApp' = nApp + 1
    /\ lock' = None
    /\ rd' = [rd EXCEPT ![i] = [NewReader EXCEPT !.late = rd[i].late]]
    /\ UNCHANGED <<running, process, thread, now, procs, fg, ret, nClr>>

\* RdExcept that never logs: the handler breaks at once
RdExceptSilent(i) ==
    /\ Unobserved
    /\ rd[i].pc = "except"
    /\ rd' = [rd EXCEPT ![i].pc = "done"]
    /\ UNCHANGED <<running, process, thread, samples, lock, now, procs, fg,
                   ret, nApp, nClr>>

\* line 77 as RdAppend, and the history is written: the task has appended
\* after the stop() of its session
RdAppendLate(i) ==
    /\ Unobserved
    /\ rd[i].pc = "append"
    /\ samples' = DequeAppend(samples,
                     [t |-> rd[i].ts, p |-> rd[i].power, n |-> nApp + 1])
    /\ nApp' = nApp + 1
    /\ lock' = None
    /\ rd' = [rd EXCEPT ![i] = [NewReader EXCEPT
                                  !.late = rd[i].late \/ Stopped(i)]]
    /\ UNCHANGED <<running, process, thread, now, procs, fg, ret, nClr>>

\* lines 79-80: the exception is caught; if self.running
RdExcept(i) ==
    /\ Unobserved
    /\ rd[i].pc = "except"
    /\ rd' = [rd EXCEPT ![i].pc = IF running THEN "print" ELSE "done"]
    /\ UNCHANGED <<running, process, thread, samples, lock, now, procs, fg,
                   ret, nApp, nClr>>

\* lines 81-82: print("Error reading tegrastats: ..."); break
RdPrint(i) ==
    /\ Unobserved
    /\ rd[i].pc = "print"
    /\ rd' = [rd EXCEPT ![i].pc = "done"]
    /\ UNCHANGED <<running, process, thread, samples, lock, now, procs, fg,
                   ret, nApp, nClr>>

\* ------------------------------------------------------------ start

\* lines 86-88
StartAlready ==
    /\ fg.pc = "idle"
    /\ running
    /\ fg' = FgReturned
    /\ ret' = Returned("start", "ok", "Monitor already running")
    /\ UNCHANGED <<running, process, thread, samples, lock, now, procs, rd,
                   nApp, nClr>>

\* StartFails with the flag set before the launch is tried
StartFailsRunning(err) ==
    /\ fg.pc = "idle"
    /\ ~running
    /\ running' = TRUE
    /\ fg' = FgReturned
    /\ ret' = Returned("start", "raised", err)
    /\ UNCHANGED <<process, thread, samples, lock, now, procs, rd, nApp, nClr>>

\* lines 92-97, 107-110: Popen raises, start raises RuntimeError
StartFails(err) ==
    /\ fg.pc = "idle"
    /\ ~running
    /\ fg' = FgReturned
    /\ ret' = Returned("start", "raised", err)
    /\ UNCHANGED <<running, process, thread, samples, lock, now, procs, rd,
                   nApp, nClr>>

\* StartLaunch that begins the session with an empty buffer
StartLaunchClears ==
    /\ fg.pc = "idle"
    /\ ~running
    /\ Len(procs) < MaxStarts
    /\ procs' = Append(procs, "alive")
    /\ process' = Len(procs) + 1
    /\ running' = TRUE
    /\ rd' = Append(rd, NewReader)
    /\ thread' = Len(rd) + 1
    /\ samples' = <<>>
    /\ nClr' = nApp
    /\ fg' = [FgIdle EXCEPT !.pc = "start_sleep", !.op = "start"]
    /\ ret' = NoRet
    /\ UNCHANGED <<lock, now, nApp>>

\* lines 92-101: the subprocess, the flag, the thread
StartLaunch ==
    /\ fg.pc = "idle"
    /\ ~running
    /\ Len(procs) < MaxStarts
    /\ procs' = Append(procs, "alive")
    /\ process' = Len(procs) + 1
    /\ running' = TRUE
    /\ rd' = Append(rd, NewReader)
    /\ thread' = Len(rd) + 1
    /\ fg' = [FgIdle EXCEPT !.pc = "start_sleep", !.op = "start"]
    /\ ret' = NoRet
    /\ UNCHANGED <<samples, lock, now, nApp, nClr>>

\* lines 104-105: after time.sleep(0.5)
StartReturn ==
    /\ fg.pc = "start_sleep"
    /\ fg' = FgReturned
    /\ ret' = Returned("start", "ok", "")
    /\ UNCHANGED <<running, process, thread, samples, lock, now, procs, rd,
                   nApp, nClr>>

\* ------------------------------------------------------------ stop

\* StopNoop that empties the buffer
StopNoopClears ==
    /\ fg.pc = "idle"
    /\ ~running
    /\ samples' = <<>>
    /\ nClr' = nApp
    /\ fg' = FgReturned
    /\ ret' = Returned("stop", "ok", "not running")
    /\ UNCHANGED <<running, process, thread, lock, now, procs, rd, nApp>>

\* lines 114-115
StopNoop ==
    /\ fg.pc = "idle"
    /\ ~running
    /\ fg' = FgReturned
    /\ ret' = Returned("stop", "ok", "not running")
    /\ UNCHANGED <<running, process, thread, samples, lock, now, procs, rd,
                   nApp, nClr>>

\* line 117
StopFlag ==
    /\ fg.pc = "idle"
    /\ running
    /\ running' = FALSE
    /\ fg' = [FgIdle EXCEPT !.pc = "stop_term", !.op = "stop"]
    /\ ret' = NoRet
    /\ UNCHANGED <<process, thread, samples, lock, now, procs, rd, nApp, nClr>>

\* lines 119-120: terminate(); the tool exits on it or ignores it
StopTerminate ==
    /\ fg.pc = "stop_term"
    /\ IF process = None
       THEN /\ fg' = [fg EXCEPT !.pc = "stop_join"]
            /\ UNCHANGED procs
       ELSE /\ fg' = [fg EXCEPT !.pc = "stop_wait"]
            /\ \E st \in {"alive", "exited"} :
                   procs' = [procs EXCEPT ![process] =
                                IF @ = "alive" THEN st ELSE @]
    /\ UNCHANGED <<running, process, thread, samples, lock, now, rd, ret,
                   nApp, nClr>>

\* StopWait with a wait() that has no timeout and no kill() after it
StopWaitForever ==
    /\ fg.pc = "stop_wait"
    /\ procs[process] # "alive"
    /\ process' = None
    /\ fg' = [fg EXCEPT !.pc = "stop_join"]
    /\ UNCHANGED <<running, thread, samples, lock, now, procs, rd, ret,
                   nApp, nClr>>

\* lines 121-123, 125: wait(timeout=2) returns and self.process = None, or
\* it raises TimeoutExpired because the tool has not exited
StopWait ==
    /\ fg.pc = "stop_wait"
    /\ IF procs[process] = "alive"
       THEN /\ fg' = [fg EXCEPT !.pc = "stop_kill"]
            /\ UNCHANGED process
       ELSE /\ fg' = [fg EXCEPT !.pc = "stop_join"]
            /\ process' = None
    /\ UNCHANGED <<running, thread, samples, lock, now, procs, rd, ret,
                   nApp, nClr>>

\* StopKill that drops the handle of the tool without killing it
StopKillSkipped ==
    /\ fg.pc = "stop_kill"
    /\ process' = None
    /\ fg' = [fg EXCEPT !.pc = "stop_join"]
    /\ UNCHANGED <<running, thread, samples, lock, now, procs, rd, ret,
                   nApp, nClr>>

\* lines 123-125: kill(), and self.process = None
StopKill ==
    /\ fg.pc = "stop_kill"
    /\ procs' = [procs EXCEPT ![process] = "exited"]
    /\ process' = None
    /\ fg' = [fg EXCEPT !.pc = "stop_join", !.killed = TRUE]
    /\ UNCHANGED <<running, thread, samples, lock, now, rd, ret, nApp, nClr>>

\* lines 127-131: join(timeout=2) returns when the thread has ended, or
\* after the timeout with the thread still alive
StopJoin ==
    /\ fg.pc = "stop_join"
    /\ thread' = None
    /\ fg' = FgReturned
    /\ ret' = [Returned("stop", "ok",
                  IF thread # None /\ rd[thread].pc # "done"
                  THEN "join timed out" ELSE "") EXCEPT
                 !.killed = fg.killed]
    /\ UNCHANGED <<running, process, samples, lock, now, procs, rd, nApp, nClr>>

\* ------------------------------------------------------------ clear_samples

ClearCall ==
    /\ fg.pc = "idle"
    /\ fg' = [FgIdle EXCEPT !.pc = "clr_lock", !.op = "clear_samples"]
    /\ ret' = NoRet
    /\ UNCHANGED <<running, process, thread, samples, lock, now, procs, rd,
                   nApp, nClr>>

\* line 135: with self.lock, entered
ClearLock ==
    /\ fg.pc = "clr_lock"
    /\ lock = None
    /\ lock' = Main
    /\ fg' = [fg EXCEPT !.pc = "clr_do"]
    /\ UNCHANGED <<running, process, thread, samples, now, procs, rd, ret,
                   nApp, nClr>>

\* ClearDo that removes the oldest sample only (popleft for clear)
ClearDoPopLeft ==
    /\ fg.pc = "clr_do"
    /\ samples' = IF samples = <<>> THEN <<>> ELSE Tail(samples)
    /\ nClr' = nApp
    /\ lock' = None
    /\ IF fg.op = "measure_idle"
       THEN /\ fg' = [fg EXCEPT !.pc = "mi_t0"]
            /\ UNCHANGED ret
       ELSE /\ fg' = FgReturned
            /\ ret' = Returned("clear_samples", "ok", "")
    /\ UNCHANGED <<running, process, thread, now, procs, rd, nApp>>

\* ClearDo that leaves the samples in the buffer
ClearDoKeeps ==
    /\ fg.pc = "clr_do"
    /\ nClr' = nApp
    /\ lock' = None
    /\ IF fg.op = "measure_idle"
       THEN /\ fg' = [fg EXCEPT !.pc = "mi_t0"]
            /\ UNCHANGED ret
       ELSE /\ fg' = FgReturned
            /\ ret' = Returned("clear_samples", "ok", "")
    /\ UNCHANGED <<running, process, thread, samples, now, procs, rd, nApp>>

\* line 136: self.samples.clear(), and the lock released
ClearDo ==
    /\ fg.pc = "clr_do"
    /\ samples' = <<>>
    /\ nClr' = nApp
    /\ lock' = None
    /\ IF fg.op = "measure_idle"
       THEN /\ fg' = [fg EXCEPT !.pc = "mi_t0"]
            /\ UNCHANGED ret
       ELSE /\ fg' = FgReturned
            /\ ret' = Returned("clear_samples", "ok", "")
    /\ UNCHANGED <<running, process, thread, now, procs, rd, nApp>>

\* ------------------------------------------------------------ get_samples

GetCall ==
    /\ fg.pc = "idle"
    /\ fg' = [FgIdle EXCEPT !.pc = "gs_lock", !.op = "get_samples"]
    /\ ret' = NoRet
    /\ UNCHANGED <<running, process, thread, samples, lock, now, procs, rd,
                   nApp, nClr>>

\* line 150: with self.lock, entered
GetLock ==
    /\ fg.pc = "gs_lock"
    /\ lock = None
    /\ lock' = Main
    /\ fg' = [fg EXCEPT !.pc = "gs_copy"]
    /\ UNCHANGED <<running, process, thread, samples, now, procs, rd, ret,
                   nApp, nClr>>

\* line 151: samples = list(self.samples), and the lock released
GetCopy ==
    /\ fg.pc = "gs_copy"
    /\ lock' = None
    /\ fg' = [fg EXCEPT !.pc = "gs_filter", !.snap = samples]
    /\ UNCHANGED <<running, process, thread, samples, now, procs, rd, ret,
                   nApp, nClr>>

\* lines 138-150: get_samples is the caller's next call after a
\* clear_samples that has just returned
GetAfterClear ==
    /\ fg.pc = "returned"
    /\ ret.op = "clear_samples"
    /\ fg' = [FgIdle EXCEPT !.pc = "gs_lock", !.op = "get_samples",
                            !.prev = "clear_samples"]
    /\ ret' = NoRet
    /\ UNCHANGED <<running, process, thread, samples, lock, now, procs, rd,
                   nApp, nClr>>

\* lines 153-159, called from outside
GetReturn(t_start, t_end) ==
    /\ fg.pc = "gs_filter"
    /\ fg.op = "get_samples"
    /\ fg' = FgReturned
    /\ ret' = [Returned("get_samples", "ok", "") EXCEPT
                 !.a = t_start, !.b = t_end, !.snap = fg.snap,
                 !.sel = FilterSamples(fg.snap, t_start, t_end),
                 !.prev = fg.prev]
    /\ UNCHANGED <<running, process, thread, samples, lock, now, procs, rd,
                   nApp, nClr>>

\* ------------------------------------------------------------ measure_idle

\* lines 171-172
IdleNotStarted ==
    /\ fg.pc = "idle"
    /\ ~running
    /\ fg' = FgReturned
    /\ ret' = Returned("measure_idle", "raised", "Monitor not started")
    /\ UNCHANGED <<running, process, thread, samples, lock, now, procs, rd,
                   nApp, nClr>>

\* IdleCall without the check of self.running
IdleCallUnchecked ==
    /\ fg.pc = "idle"
    /\ fg' = [FgIdle EXCEPT !.pc = "clr_lock", !.op = "measure_idle"]
    /\ ret' = NoRet
    /\ UNCHANGED <<running, process, thread, samples, lock, now, procs, rd,
                   nApp, nClr>>

\* lines 171-175: the check passed, clear_samples() entered
IdleCall ==
    /\ fg.pc = "idle"
    /\ running
    /\ fg' = [FgIdle EXCEPT !.pc = "clr_lock", !.op = "measure_idle"]
    /\ ret' = NoRet
    /\ UNCHANGED <<running, process, thread, samples, lock, now, procs, rd,
                   nApp, nClr>>

\* line 177: t_start = time.time()
IdleT0 ==
    /\ fg.pc = "mi_t0"
    /\ fg' = [fg EXCEPT !.pc = "mi_sleep", !.a = now]
    /\ UNCHANGED <<running, process, thread, samples, lock, now, procs, rd,
                   ret, nApp, nClr>>

\* lines 178-181: time.sleep(duration_sec) is over, after any number of
\* clock ticks; t_end = time.time(), get_samples(t_start, t_end) entered
IdleWake ==
    /\ fg.pc = "mi_sleep"
    /\ fg' = [fg EXCEPT !.pc = "gs_lock", !.b = now]
    /\ UNCHANGED <<running, process, thread, samples, lock, now, procs, rd,
                   ret, nApp, nClr>>

\* IdleReturn that takes an empty selection for an idle power of zero
IdleReturnZero ==
    /\ fg.pc = "gs_filter"
    /\ fg.op = "measure_idle"
    /\ LET sel == FilterSamples(fg.snap, fg.a, fg.b)
           r == [NoRet EXCEPT !.op = "measure_idle", !.slept = TRUE,
                              !.a = fg.a, !.b = fg.b, !.snap = fg.snap,
                              !.sel = sel, !.n0 = nClr, !.status = "ok"]
       IN  ret' = IF sel = <<>> THEN r ELSE [r EXCEPT !.avg = AvgPower(sel)]
    /\ fg' = FgReturned
    /\ UNCHANGED <<running, process, thread, samples, lock, now, procs, rd,
                   nApp, nClr>>

\* lines 181-190
IdleReturn ==
    /\ fg.pc = "gs_filter"
    /\ fg.op = "measure_idle"
    /\ LET sel == FilterSamples(fg.snap, fg.a, fg.b)
           r == [NoRet EXCEPT !.op = "measure_idle", !.slept = TRUE,
                              !.a = fg.a, !.b = fg.b, !.snap = fg.snap,
                              !.sel = sel, !.n0 = nClr]
       IN  ret' = IF sel = <<>>
                  THEN [r EXCEPT !.status = "raised",
                                 !.err = "No power samples collected"]
                  ELSE [r EXCEPT !.status = "ok", !.avg = AvgPower(sel)]
    /\ fg' = FgReturned
    /\ UNCHANGED <<running, process, thread, samples, lock, now, procs, rd,
                   nApp, nClr>>

\* ------------------------------------------------------------ integrate_energy

\* line 205: get_samples(t_start, t_end) entered
IntegrateCall ==
    /\ fg.pc = "idle"
    /\ fg' = [FgIdle EXCEPT !.pc = "gs_lock", !.op = "integrate_energy"]
    /\ ret' = NoRet
    /\ UNCHANGED <<running, process, thread, samples, lock, now, procs, rd,
                   nApp, nClr>>

\* IntegrateReturn with a check of self.running like measure_idle's
IntegrateReturnChecked(t_start, t_end, idle_mw) ==
    /\ fg.pc = "gs_filter"
    /\ fg.op = "integrate_energy"
    /\ LET sel == FilterSamples(fg.snap, t_start, t_end)
       IN  ret' = IF ~running
                  THEN [Returned("integrate_energy", "raised",
                                 "Monitor not started") EXCEPT
                          !.a = t_start, !.b = t_end, !.idle = idle_mw,
                          !.snap = fg.snap, !.sel = sel]
                  ELSE [Returned("integrate_energy", "ok", "") EXCEPT
                          !.a = t_start, !.b = t_end, !.idle = idle_mw,
                          !.snap = fg.snap, !.sel = sel,
                          !.warned = IntegrateWarns(sel),
                          !.energy = IntegrateEnergy(sel, t_start, t_end, idle_mw)]
    /\ fg' = FgReturned
    /\ UNCHANGED <<running, process, thread, samples, lock, now, procs, rd,
                   nApp, nClr>>

\* lines 205-235
IntegrateReturn(t_start, t_end, idle_mw) ==
    /\ fg.pc = "gs_filter"
    /\ fg.op = "integrate_energy"
    /\ LET sel == FilterSamples(fg.snap, t_start, t_end)
       IN  ret' = [Returned("integrate_energy", "ok", "") EXCEPT
                     !.a = t_start, !.b = t_end, !.idle = idle_mw,
                     !.snap = fg.snap, !.sel = sel,
                     !.warned = IntegrateWarns(sel),
                     !.energy = IntegrateEnergy(sel, t_start, t_end, idle_mw)]
    /\ fg' = FgReturned
    /\ UNCHANGED <<running, process, thread, samples, lock, now, procs, rd,
                   nApp, nClr>>

\* ------------------------------------------------------------ specifications

\* the caller takes the outcome of the call
Resume ==
    /\ fg.pc = "returned"
    /\ fg' = FgIdle
    /\ ret' = NoRet
    /\ UNCHANGED <<running, process, thread, samples, lock, now, procs, rd,
                   nApp, nClr>>

Next ==
    \/ Resume
    \/ Tick
    \/ \E k \in DOMAIN procs : ToolExits(k)
    \/ \E i \in DOMAIN rd : RdLoop(i)
    \/ \E i \in DOMAIN rd : RdEval(i)
    \/ \E i \in DOMAIN rd, line \in Lines : RdLine(i, line)
    \/ \E i \in DOMAIN rd : RdReadError(i)
    \/ \E i \in DOMAIN rd : RdEof(i)
    \/ \E i \in DOMAIN rd : RdStamp(i)
    \/ \E i \in DOMAIN rd : RdLock(i)
    \/ \E i \in DOMAIN rd : RdAppend(i)
    \/ \E i \in DOMAIN rd : RdExcept(i)
    \/ \E i \in DOMAIN rd : RdPrint(i)
    \/ StartAlready
    \/ \E err \in {"tegrastats not found", "Failed to start tegrastats"} :
           StartFails(err)
    \/ StartLaunch
    \/ StartReturn
    \/ StopNoop
    \/ StopFlag
    \/ StopTerminate
    \/ StopWait
    \/ StopKill
    \/ StopJoin
    \/ ClearCall
    \/ ClearLock
    \/ ClearDo
    \/ GetCall
    \/ GetAfterClear
    \/ GetLock
    \/ GetCopy
    \/ \E q \in Queries : GetReturn(q[1], q[2])
    \/ IdleNotStarted
    \/ IdleCall
    \/ IdleT0
    \/ IdleWake
    \/ IdleReturn
    \/ IntegrateCall
    \/ \E t_start \in Times, t_end \in Times, idle_mw \in Idles :
           IntegrateReturn(t_start, t_end, idle_mw)

Spec == Init /\ [][Next]_vars

\* ---- the integration alone: a session that ran once, buffered some
\* ---- samples with a ticking clock and was stopped; integrate_energy is
\* ---- then called with every window and idle baseline

CalcSamples(k) == [1..k -> CalcTimes \X CalcPowers]

InitCalc ==
    /\ running = FALSE
    /\ process = None
    /\ thread = None
    /\ samples \in UNION { { [i \in 1..k |-> [t |-> f[i][1], p |-> f[i][2], n |-> i]] :
                             f \in { g \in CalcSamples(k) :
                                       \A i \in 1..(k - 1) : g[i][1] < g[i + 1][1] } } :
                           k \in 0..CalcMaxLen }
    /\ lock = None
    /\ now = CalcMaxTime
    /\ procs = <<"exited">>
    /\ rd = <<[NewReader EXCEPT !.pc = "done"]>>
    /\ fg = FgIdle
    /\ ret = NoRet
    /\ nApp = Len(samples)
    /\ nClr = 0

NextCalc ==
    \/ Resume
    \/ IntegrateCall
    \/ GetLock
    \/ GetCopy
    \/ \E t_start \in CalcTimes, t_end \in CalcTimes, idle_mw \in CalcIdles :
           IntegrateReturn(t_start, t_end, idle_mw)

SpecCalc == InitCalc /\ [][NextCalc]_vars

\* ---- the benchmark driver (run_benchmark): one start(), then the body of
\* ---- the try block, then stop() in the finally block, and no call after
\* ---- it.  The body calls measure_idle and, for each task, clear_samples
\* ---- and integrate_energy; an exception or a return leaves it after any
\* ---- of them.  The calls of the body are taken in any order here, which
\* ---- covers every path through the body.

\* line 287: monitor.start(), once
BenchStart == procs = <<>> /\ StartLaunch

\* line 287: monitor.start() raises, and run_benchmark with it
BenchStartFails(err) == procs = <<>> /\ StartFails(err)

\* run_single_task, line 195: monitor.clear_samples()
BenchClear == running /\ ClearCall

\* run_single_task, line 212: monitor.integrate_energy(...)
BenchIntegrate == running /\ IntegrateCall

NextBench ==
    \/ Resume
    \/ Tick
    \/ \E k \in DOMAIN procs : ToolExits(k)
    \/ \E i \in DOMAIN rd : RdLoop(i)
    \/ \E i \in DOMAIN rd : RdEval(i)
    \/ \E i \in DOMAIN rd, line \in Lines : RdLine(i, line)
    \/ \E i \in DOMAIN rd : RdReadError(i)
    \/ \E i \in DOMAIN rd : RdEof(i)
    \/ \E i \in DOMAIN rd : RdStamp(i)
    \/ \E i \in DOMAIN rd : RdLock(i)
    \/ \E i \in DOMAIN rd : RdAppend(i)
    \/ \E i \in DOMAIN rd : RdExcept(i)
    \/ \E i \in DOMAIN rd : RdPrint(i)
    \/ BenchStart
    \/ \E err \in {"tegrastats not found", "Failed to start tegrastats"} :
           BenchStartFails(err)
    \/ StartReturn
    \/ IdleCall
    \/ IdleT0
    \/ IdleWake
    \/ IdleReturn
    \/ BenchClear
    \/ ClearLock
    \/ ClearDo
    \/ BenchIntegrate
    \/ GetLock
    \/ GetCopy
    \/ \E t_start \in Times, t_end \in Times, idle_mw \in Idles :
           IntegrateReturn(t_start, t_end, idle_mw)
    \/ StopFlag
    \/ StopTerminate
    \/ StopWait
    \/ StopKill
    \/ StopJoin

SpecBench == Init /\ [][NextBench]_vars

\* ---- the benchmark with a foreground thread that is scheduled: a stop()
\* ---- that can take its next step takes it.  Nothing is assumed of the
\* ---- reader, the tool or the clock
SpecStop ==
    SpecBench /\ WF_vars(StopTerminate) /\ WF_vars(StopWait)
              /\ WF_vars(StopKill) /\ WF_vars(StopJoin)

\* ------------------------------------------------------------ claims

\* what the last call returned
Integrated == ret.op = "integrate_energy"
Calibrated == ret.op = "measure_idle" /\ ret.slept

\* the places in a copy of the buffer whose timestamp lies in [t_start, t_end]
InWindow(copy, t_start, t_end) ==
    {i \in DOMAIN copy : t_start <= copy[i].t /\ copy[i].t <= t_end}

RECURSIVE SumOver(_, _)
SumOver(copy, I) ==
    IF I = {} THEN 0
    ELSE LET i == CHOOSE x \in I : TRUE
         IN  copy[i].p + SumOver(copy, I \ {i})

\* (max(0, p1 - idle) + max(0, p2 - idle)) / 2 / 1000 * (t2 - t1), in
\* 1/EnergyDen joule, for the pair at places k and k + 1
PairEnergy(sel, k, idle_mw) ==
    (Max0(sel[k].p - idle_mw) + Max0(sel[k + 1].p - idle_mw))
        * (sel[k + 1].t - sel[k].t)

RECURSIVE PairSum(_, _, _)
PairSum(sel, k, idle_mw) ==
    IF k = 0 THEN 0
    ELSE PairSum(sel, k - 1, idle_mw) + PairEnergy(sel, k, idle_mw)

\* the (timestamp, power_mw) tuples of a sequence of samples
Tuples(sel) == [i \in DOMAIN sel |-> <<sel[i].t, sel[i].p>>]

\* the samples of a copy with timestamp in [t_start, t_end], in buffer order
Selected(copy, t_start, t_end) ==
    SelectSeq(copy, LAMBDA s : t_start <= s.t /\ s.t <= t_end)

\* C1: for every reachable content of the buffer and every (t_start, t_end,
\* idle_mw), integrate_energy returns an energy >= 0.
C1_NonNegative == Integrated => ret.energy >= 0

\* C2: with two or more buffered samples in [t_start, t_end], the result is
\* the sum over the adjacent pairs of
\* ((max(0,p1-idle) + max(0,p2-idle)) / 2 / 1000) * (t2 - t1); samples at or
\* below the idle baseline give 0 ((0,500),(1,500) with idle 600), and
\* (0,1000),(2,2000) with idle 0 gives 3 joules.
C2_Trapezoid ==
    Integrated /\ Cardinality(InWindow(ret.snap, ret.a, ret.b)) >= 2 =>
        LET sel == Selected(ret.snap, ret.a, ret.b)
        IN  /\ ret.status = "ok"
            /\ ret.energy = PairSum(sel, Len(sel) - 1, ret.idle)
            /\ (\A k \in DOMAIN sel : sel[k].p <= ret.idle) => ret.energy = 0
            /\ Tuples(sel) = <<<<0, 500>>, <<1, 500>>>> /\ ret.idle = 600
                   => ret.energy = 0
            /\ Tuples(sel) = <<<<0, 1000>>, <<2, 2000>>>> /\ ret.idle = 0
                   => ret.energy = 3 * EnergyDen

C2_Witness ==
    /\ Integrated
    /\ Tuples(ret.sel) = <<<<0, 1000>>, <<2, 2000>>>>
    /\ Len(ret.snap) = 3
    /\ ret.idle = 0
    /\ ret.energy = 3 * EnergyDen

\* C3 as stated: with the buffer holding the one sample (t=5, 3000 mW),
\* integrate_energy(0, 4, 1000) returns 8 joules.
C3_Example ==
    /\ Integrated
    /\ Tuples(ret.snap) = <<<<5, 3000>>>>
    /\ ret.a = 0 /\ ret.b = 4 /\ ret.idle = 1000
    => ret.energy = 8 * EnergyDen

\* C3 amended: with the buffer holding the one sample (t=5, 3000 mW),
\* integrate_energy(0, 4, 1000) selects nothing (5 is outside [0, 4]) and
\* returns 0.0 with the warning; a window 4 seconds long that holds the
\* sample, such as [1, 5], returns (3000-1000)/1000 * 4 = 8 joules.
C3_OutsideWindow ==
    Integrated /\ Tuples(ret.snap) = <<<<5, 3000>>>> /\ ret.idle = 1000 =>
        /\ ret.a = 0 /\ ret.b = 4
               => ret.sel = <<>> /\ ret.energy = 0 /\ ret.warned
        /\ ret.a <= 5 /\ 5 <= ret.b /\ ret.b - ret.a = 4
               => ret.energy = 8 * EnergyDen /\ ret.warned

C3_Witness ==
    /\ Integrated
    /\ Tuples(ret.snap) = <<<<5, 3000>>>>
    /\ ret.a = 0 /\ ret.b = 4 /\ ret.idle = 1000
    /\ ret.energy = 0
    /\ ret.warned

\* C4: with exactly one buffered sample (t, p) in [t_start, t_end], the
\* result is max(0, p - idle_mw) / 1000 * (t_end - t_start).
C4_SingleSample ==
    Integrated /\ Cardinality(InWindow(ret.snap, ret.a, ret.b)) = 1 =>
        LET i == CHOOSE x \in InWindow(ret.snap, ret.a, ret.b) : TRUE
        IN  /\ ret.status = "ok"
            /\ ret.energy =
                   2 * Max0(ret.snap[i].p - ret.idle) * (ret.b - ret.a)

C4_Witness ==
    /\ Integrated
    /\ Cardinality(InWindow(ret.snap, ret.a, ret.b)) = 1
    /\ Len(ret.snap) = 3
    /\ ret.b - ret.a = 2
    /\ ret.idle = 600
    /\ ret.energy = 2 * 400 * 2

\* C5: on a window that selects no sample (t_start > t_end, or no buffered
\* sample in [t_start, t_end]) integrate_energy returns 0.0 with the warning
\* and raises nothing.
C5_EmptyWindow ==
    Integrated /\ (ret.a > ret.b \/ InWindow(ret.snap, ret.a, ret.b) = {}) =>
        /\ ret.status = "ok"
        /\ ret.energy = 0
        /\ ret.warned

C5_Witness ==
    /\ Integrated
    /\ ret.a > ret.b
    /\ Len(ret.snap) = 2
    /\ ret.status = "ok" /\ ret.energy = 0 /\ ret.warned

C7_IdleNeedsRunning ==
    /\ ret.op = "measure_idle" /\ ~running
           => /\ ret.status = "raised"
              /\ ret.err = "Monitor not started"
              /\ ~ret.slept
    /\ fg.op = "measure_idle" => running

C7_Witness ==
    /\ ret.op = "measure_idle"
    /\ ~running /\ procs # <<>>
    /\ ret.status = "raised"
    /\ samples # <<>>

\* C8: measure_idle on a Running session fails with an explicit error
\* whenever the buffer, when it is queried at the end of the wait, holds no
\* sample with a timestamp in [t_start, t_end]; it returns no baseline
\* computed from zero samples.
C8_IdleNoSamples ==
    Calibrated =>
        /\ InWindow(ret.snap, ret.a, ret.b) = {}
               => /\ ret.status = "raised"
                  /\ ret.err = "No power samples collected"
        /\ ret.status = "ok" => ret.avg[2] > 0

C8_Witness ==
    /\ Calibrated
    /\ ret.snap # <<>>
    /\ InWindow(ret.snap, ret.a, ret.b) = {}
    /\ ret.status = "raised"

\* C9: a successful measure_idle returns the arithmetic mean of the powers
\* of exactly the buffered samples with a timestamp in the calibration
\* window; no sample that was in the buffer before the call is among them.
C9_IdleMean ==
    Calibrated /\ ret.status = "ok" =>
        LET W == InWindow(ret.snap, ret.a, ret.b)
        IN  /\ W # {}
            /\ ret.avg = <<SumOver(ret.snap, W), Cardinality(W)>>
            /\ \A i \in W : ret.snap[i].n > ret.n0

C9_Witness ==
    /\ Calibrated
    /\ ret.status = "ok"
    /\ ret.n0 >= 1
    /\ ret.avg = <<2500, 2>>

\* C10: the buffer never holds more than capacity samples; it holds the
\* most recent min(capacity, appended since the last clear) samples in
\* append order, the newest last (no append is refused).
C10_Ring ==
    /\ Len(samples) <= Capacity
    /\ Len(samples) = (IF nApp - nClr > Capacity THEN Capacity ELSE nApp - nClr)
    /\ \A i \in DOMAIN samples : samples[i].n = nApp - Len(samples) + i

C10_Witness ==
    /\ nApp - nClr > Capacity
    /\ Len(samples) = Capacity
    /\ samples[Len(samples)].n = nApp

\* get_samples has returned to a caller that called it right after
\* clear_samples
ClearedThenQueried == ret.op = "get_samples" /\ ret.prev = "clear_samples"

\* C11 as stated: clear_samples() followed immediately by get_samples()
\* returns an empty sequence, in every reachable state of the session, also
\* while a reader is running.
C11_Empty ==
    ClearedThenQueried /\ ret.a = NoMatch /\ ret.b = NoMatch => ret.sel = <<>>

\* C11 amended: clear_samples() followed immediately by get_samples()
\* returns only samples that were appended after the clear (the most recent
\* of them, up to capacity, within the bounds given); the result is empty
\* when no sample has been appended since the clear, as on a session that
\* was never started.
C11_OnlyNewer ==
    ClearedThenQueried =>
        /\ \A i \in DOMAIN ret.snap : ret.snap[i].n > nClr
        /\ \A i \in DOMAIN ret.sel : ret.sel[i].n > nClr
        /\ ret.a = NoMatch /\ ret.b = NoMatch => ret.sel = ret.snap
        /\ nApp = nClr => ret.snap = <<>>
        /\ procs = <<>> => ret.sel = <<>>

C11_Witness ==
    /\ ClearedThenQueried
    /\ running
    /\ nClr >= 1
    /\ ret.a = NoMatch /\ ret.b = NoMatch
    /\ ret.sel # <<>>

\* C12: stop() on a session that is not Running is a no-op: the running
\* flag, the process handle, the thread handle and the buffer are left as
\* they were (and nothing is signalled or joined), so any number of
\* repeated stop() calls has the effect of one.
C12_StopNoop ==
    [][(fg.pc = "idle" /\ ~running /\ ret'.op = "stop") =>
           /\ fg'.pc = "returned"
           /\ ret'.status = "ok"
           /\ UNCHANGED <<running, process, thread, samples, procs, rd, lock>>
      ]_vars

C12_Witness ==
    /\ ret.op = "stop"
    /\ ret.err = "not running"
    /\ procs # <<>>
    /\ samples # <<>>

\* C13: once stop() has taken a session from Running to Stopped, no later
\* call puts the session in Running again.
C13_Terminal == [][(procs # <<>> /\ ~running) => ~running']_vars

\* the subprocesses and the reader tasks of the session that are alive
LiveProcs == {k \in DOMAIN procs : procs[k] = "alive"}
LiveReaders == {i \in DOMAIN rd : rd[i].pc # "done"}

\* C14: a session has at most one live telemetry subprocess and at most one
\* live reader task, in every reachable state.
C14_OneLive ==
    /\ Cardinality(LiveProcs) <= 1
    /\ Cardinality(LiveReaders) <= 1

\* C17: when the tool executable is not found, start() raises before any
\* sampling begins: the running flag stays false, no subprocess and no
\* reader task is created, no sample is appended, and the launch is not
\* tried again.
C17_NotFound ==
    [][(fg.pc = "idle" /\ ret'.op = "start"
            /\ ret'.err = "tegrastats not found") =>
           /\ fg'.pc = "returned"
           /\ ret'.status = "raised"
           /\ ~running'
           /\ UNCHANGED <<running, process, thread, samples, procs, rd, nApp>>
      ]_vars

C17_Witness ==
    /\ ret.op = "start"
    /\ ret.status = "raised"
    /\ ret.err = "tegrastats not found"
    /\ ~running /\ process = None /\ thread = None
    /\ rd = <<>> /\ samples = <<>>

\* C19: the samples of the buffer are in time order in every reachable
\* state.  The order is stated with <=, so that a clock that gives one value
\* to two appends is not what breaks it; the strict order of the claim
\* fails wherever this one does.
C19_TimeOrdered ==
    \A i \in 1..(Len(samples) - 1) : samples[i].t <= samples[i + 1].t

\* C20: the lock gives mutual exclusion and is held only inside one buffer
\* operation: the foreground holds it exactly while it is in the clear or
\* in the copy, a reader exactly while it is in its append; nobody holds it
\* while sleeping, reading or parsing a line, filtering or integrating.
C20_Lock ==
    /\ lock \in {None, Main} \cup DOMAIN rd
    /\ lock = Main <=> fg.pc \in {"clr_do", "gs_copy"}
    /\ \A i \in DOMAIN rd : lock = i <=> rd[i].pc = "append"

C20_Witness ==
    /\ \E i \in DOMAIN rd : lock = i
    /\ fg.pc = "gs_lock"
    /\ fg.op = "measure_idle"
    /\ \E j \in DOMAIN rd : rd[j].pc = "lock"

\* C15: the benchmark stops the session it started on every way out of its
\* body, and once stop() has returned from the finally block no subprocess
\* and no reader task of the session is alive.
C15_NoLeak ==
    ret.op = "stop" => LiveProcs = {} /\ LiveReaders = {}

\* C16: every call of stop() returns, whatever the subprocess does with the
\* request to terminate and wherever the reader task is (in its append,
\* waiting for the lock, blocked on a read) when stop() is called.
C16_StopReturns ==
    (fg.op = "stop" /\ fg.pc # "returned") ~> (ret.op = "stop")

C16_Witness ==
    /\ ret.op = "stop"
    /\ ret.err = "join timed out"
    /\ ret.killed
    /\ \E i \in DOMAIN rd : rd[i].pc = "append"

\* the number of appends made when a copy of the buffer was taken (no clear
\* comes between the copy and the return of the call that took it)
SnapSerial(copy) == IF copy = <<>> THEN nClr ELSE copy[Len(copy)].n

\* a copy is the content the buffer had at one instant, the one right after
\* append number k: the latest min(capacity, k - cleared) samples up to
\* number k, each as it was appended; what the buffer holds now and the copy
\* lacks was appended after k, and what the copy holds and the buffer lacks
\* has been evicted since
SnapshotAt(copy, k) ==
    /\ k <= nApp
    /\ Len(copy) = (IF k - nClr > Capacity THEN Capacity ELSE k - nClr)
    /\ \A i \in DOMAIN copy : copy[i].n = k - Len(copy) + i
    /\ \A j \in DOMAIN samples :
           samples[j].n <= k => \E i \in DOMAIN copy : copy[i] = samples[j]
    /\ \A i \in DOMAIN copy :
           \/ \E j \in DOMAIN samples : samples[j] = copy[i]
           \/ copy[i].n <= nApp - Capacity

\* t_start <= t <= t_end, an omitted bound not counted
Kept(s, t_start, t_end) ==
    /\ t_start = NoMatch \/ s.t >= t_start
    /\ t_end = NoMatch \/ s.t <= t_end

\* C18: a get_samples that runs while the readers append returns a
\* snapshot: the buffer as it was at one single instant, filtered by the
\* bounds; every element is a whole sample as it was appended; appends made
\* after the copy do not change the list the call works on and returns, and
\* the only samples it misses are those appended after that instant.
C18_Snapshot ==
    [][/\ fg'.pc = "gs_filter" => SnapshotAt(fg.snap, SnapSerial(fg.snap))'
       /\ fg.pc = "gs_filter" /\ fg'.pc = "gs_filter" => fg'.snap = fg.snap
       /\ fg.pc = "gs_filter" /\ fg'.pc = "returned" => ret'.snap = fg.snap
       /\ ret'.op = "get_samples" =>
              /\ SnapshotAt(ret.snap, SnapSerial(ret.snap))'
              /\ ret'.sel = SelectSeq(ret'.snap,
                                LAMBDA s : Kept(s, ret'.a, ret'.b))
      ]_vars

C18_Witness ==
    /\ ret.op = "get_samples"
    /\ Len(ret.snap) = 1
    /\ Len(samples) = 2
    /\ samples[1] = ret.snap[1]
    /\ ret.sel = ret.snap

\* C21: integrate_energy is monotonic in the idle subtraction: for the
\* buffer content and the window of a call, a larger idle_mw never gives a
\* larger energy, with no, one or many samples selected.
C21_Monotonic ==
    Integrated =>
        \A idle_b \in Idles \cup CalcIdles :
            idle_b >= ret.idle =>
                IntegrateEnergy(ret.sel, ret.a, ret.b, idle_b) <= ret.energy

\* ---- the parser alone: _parse_power called with every decoded line

\* lines 33-61: _parse_power(line) returns
ParseCall(line) ==
    /\ fg.pc = "idle"
    /\ fg' = FgReturned
    /\ ret' = [Returned("_parse_power", "ok", "") EXCEPT
                 !.line = line, !.power = ParsePower(line)]
    /\ UNCHANGED <<running, process, thread, samples, lock, now, procs, rd,
                   nApp, nClr>>

NextParse ==
    \/ Resume
    \/ \E line \in ParseLines : ParseCall(line)

SpecParse == Init /\ [][NextParse]_vars

Parsed == ret.op = "_parse_power"

\* C22: the parser returns the current (first) member of the pair after
\* VDD_IN when the line has such a pair, otherwise the current member of the
\* pair after POM_5V_IN when the line has that, and NoMatch for every other
\* line, a field followed by something that is not a digit string included;
\* it never returns the average member as such and never raises.
C22_Parser ==
    Parsed =>
        /\ ret.status = "ok"
        /\ ret.line.vdd.k = "pair" => ret.power = ret.line.vdd.cur
        /\ (ret.line.vdd.k # "pair" /\ ret.line.pom.k = "pair") =>
               ret.power = ret.line.pom.cur
        /\ (ret.line.vdd.k # "pair" /\ ret.line.pom.k # "pair") =>
               ret.power = NoMatch

\* VDD_IN is not followed by digits, POM_5V_IN carries 500/2594: the
\* fallback's current member is returned
C22_Witness ==
    /\ Parsed
    /\ ret.line.vdd = NonDigit
    /\ ret.line.pom = Pair(500, 2594)
    /\ ret.power = 500

\* C23: for each line the reader task receives, it appends exactly one
\* sample (the time read after the parse, the parsed power) when the parser
\* matches, and leaves the buffer as it is when the parser reports NoMatch;
\* a NoMatch line is not logged and does not end the loop, which goes back
\* to its test and the next read.
C23_PerLine ==
    [][\A i \in DOMAIN rd :
          /\ (rd[i].pc = "readline" /\ rd'[i] # rd[i]) =>
                 \A line \in Lines :
                     (RdLine(i, line) /\ line.ok) =>
                         /\ samples' = samples
                         /\ IF ParsePower(line) = NoMatch
                            THEN rd'[i].pc = "loop"
                            ELSE /\ rd'[i].pc = "stamp"
                                 /\ rd'[i].power = ParsePower(line)
          /\ (rd[i].pc = "stamp" /\ rd'[i] # rd[i]) =>
                 /\ rd'[i] = [rd[i] EXCEPT !.pc = "lock", !.ts = now]
                 /\ samples' = samples
          /\ (rd[i].pc = "lock" /\ rd'[i] # rd[i]) =>
                 /\ rd'[i] = [rd[i] EXCEPT !.pc = "append"]
                 /\ samples' = samples
          /\ (rd[i].pc = "append" /\ rd'[i] # rd[i]) =>
                 /\ rd'[i].pc = "loop"
                 /\ nApp' = nApp + 1
                 /\ Len(samples') = IF Len(samples) < Capacity
                                    THEN Len(samples) + 1 ELSE Capacity
                 /\ samples'[Len(samples')].t = rd[i].ts
                 /\ samples'[Len(samples')].p = rd[i].power
                 /\ \A k \in 1..(Len(samples') - 1) :
                        samples'[k] \in {samples[j] : j \in DOMAIN samples}
      ]_vars

\* two matched lines are in the buffer with their powers, a third is on its
\* way, and the reader has gone round its loop in between
C23_Witness ==
    /\ Len(samples) = 2
    /\ samples[1].p = 500 /\ samples[1].n = 1
    /\ samples[2].p = 2000 /\ samples[2].n = 2
    /\ \E i \in DOMAIN rd : rd[i].pc = "stamp" /\ rd[i].power = 500
    /\ Len(rd) = 1

\* C24: stop() on a running session takes its steps in this order: it
\* clears the running flag, asks the subprocess to terminate, waits for it
\* with a timeout, kills it only if that wait timed out, then joins the
\* reader task with a timeout; when it returns the flag is false, the
\* subprocess has exited or been killed, and the process and thread handles
\* are cleared.
C24_StopOrder ==
    [][/\ (fg.pc = "idle" /\ fg'.op = "stop" /\ fg'.pc # "returned") =>
              /\ running /\ ~running'
              /\ fg'.pc = "stop_term"
              /\ UNCHANGED <<process, thread, procs>>
       /\ (fg.pc = "stop_term" /\ fg' # fg) =>
              /\ process # None
              /\ fg'.pc = "stop_wait"
              /\ UNCHANGED <<running, process, thread>>
              /\ \A k \in DOMAIN procs : k # process => procs'[k] = procs[k]
       /\ (fg.pc = "stop_wait" /\ fg' # fg) =>
              /\ ~fg'.killed
              /\ UNCHANGED <<running, thread, procs>>
              /\ IF procs[process] = "alive"
                 THEN fg'.pc = "stop_kill" /\ process' = process
                 ELSE fg'.pc = "stop_join" /\ process' = None
       /\ (fg.pc = "stop_kill" /\ fg' # fg) =>
              /\ fg'.pc = "stop_join" /\ fg'.killed
              /\ procs'[process] # "alive"
              /\ process' = None
              /\ UNCHANGED <<running, thread>>
       /\ (fg.pc = "stop_join" /\ fg' # fg) =>
              /\ thread # None
              /\ fg'.pc = "returned" /\ ret'.op = "stop"
              /\ ret'.killed = fg.killed
              /\ ~running' /\ process' = None /\ thread' = None
              /\ \A k \in DOMAIN procs' : procs'[k] # "alive"
       /\ fg.pc \in {"stop_term", "stop_wait", "stop_kill", "stop_join"} =>
              ~running
      ]_vars

\* the stop() of a second session has returned: the tool ignored the
\* request to terminate and was killed, the reader was joined in time
C24_Witness ==
    /\ ret.op = "stop"
    /\ ret.killed
    /\ ret.err = ""
    /\ Len(procs) = 2
    /\ ~running /\ process = None /\ thread = None
    /\ LiveProcs = {}

\* C25: an unexpected error in the reader task (a failing read, a line that
\* does not decode, the process handle cleared by a concurrent stop()) ends
\* that reader task and nothing else: the handler tests the running flag,
\* ends the task silently when the flag is false and with a logged message
\* when it is true; no state of the host changes, and no call of the host
\* sees the error.
C25_ReaderError ==
    [][\A i \in DOMAIN rd :
          rd'[i] # rd[i] =>
              /\ rd[i].pc # "done"
              /\ rd'[i].pc = "except" =>
                     /\ rd[i].pc \in {"eval", "readline"}
                     /\ rd[i].pc = "eval" => process = None
              /\ rd[i].pc = "except" =>
                     rd'[i].pc = IF running THEN "print" ELSE "done"
              /\ rd'[i].pc = "print" => rd[i].pc = "except" /\ running
              /\ rd[i].pc = "print" => rd'[i].pc = "done"
              /\ (rd[i].pc \in {"except", "print"}
                     \/ rd'[i].pc = "except") =>
                     UNCHANGED <<running, process, thread, samples, lock,
                                 procs, fg, ret, nApp, nClr>>
      ]_vars

\* a read failed while the session runs: the reader is about to log it,
\* and the host goes on (it is asleep in measure_idle)
C25_Witness ==
    /\ running
    /\ \E i \in DOMAIN rd : rd[i].pc = "print"
    /\ fg.op = "measure_idle"
    /\ fg.pc # "returned"
    /\ samples # <<>>

\* ---- the life of the reader tasks: sessions are started and stopped, the
\* ---- tool writes lines or ends, and every thread is scheduled: a reader
\* ---- that can take a step takes one, a call of the host that is under
\* ---- way goes on, the caller takes the outcome of a call.  When the host
\* ---- calls start() or stop(), and when the tool ends, is left open.  The
\* ---- appends a reader makes after the stop() of its session are recorded

\* one step of the reader task i (lines 65-82)
ReaderStep(i) ==
    \/ RdLoop(i)
    \/ RdEval(i)
    \/ \E line \in Lines : RdLine(i, line)
    \/ RdReadError(i)
    \/ RdEof(i)
    \/ RdStamp(i)
    \/ RdLock(i)
    \/ RdAppendLate(i)
    \/ RdExcept(i)
    \/ RdPrint(i)

NextLife ==
    \/ Resume
    \/ \E k \in DOMAIN procs : ToolExits(k)
    \/ \E i \in DOMAIN rd : RdLoop(i)
    \/ \E i \in DOMAIN rd : RdEval(i)
    \/ \E i \in DOMAIN rd, line \in Lines : RdLine(i, line)
    \/ \E i \in DOMAIN rd : RdReadError(i)
    \/ \E i \in DOMAIN rd : RdEof(i)
    \/ \E i \in DOMAIN rd : RdStamp(i)
    \/ \E i \in DOMAIN rd : RdLock(i)
    \/ \E i \in DOMAIN rd : RdAppendLate(i)
    \/ \E i \in DOMAIN rd : RdExcept(i)
    \/ \E i \in DOMAIN rd : RdPrint(i)
    \/ StartLaunch
    \/ StartReturn
    \/ StopFlag
    \/ StopTerminate
    \/ StopWait
    \/ StopKill
    \/ StopJoin

SpecLife ==
    /\ Init
    /\ [][NextLife]_vars
    /\ \A i \in 1..MaxStarts : WF_vars(i \in DOMAIN rd /\ ReaderStep(i))
    /\ WF_vars(Resume) /\ WF_vars(StartReturn)
    /\ WF_vars(StopTerminate) /\ WF_vars(StopWait)
    /\ WF_vars(StopKill) /\ WF_vars(StopJoin)

\* the reader task i has been created and has left its loop
Ended(i) == i \in DOMAIN rd /\ rd[i].pc = "done"

\* C26: the reader task runs until stop() or the end of the tool's output:
\* a reader that reads a stream that has ended exits, and once stop() has
\* been called on a running session the reader task of that session
\* eventually exits; a reader leaves its loop only at the flag test, at the
\* end of the stream or through the error handler.
C26_ReaderEnds ==
    /\ \A i \in 1..MaxStarts :
           (i \in DOMAIN rd /\ rd[i].pc = "readline"
                /\ procs[rd[i].h] # "alive") ~> Ended(i)
    /\ \A i \in 1..MaxStarts :
           (fg.pc = "stop_term" /\ thread = i) ~> Ended(i)
    /\ [][\A i \in DOMAIN rd :
              (rd'[i].pc = "done" /\ rd[i].pc # "done") =>
                  \/ rd[i].pc = "loop" /\ ~running
                  \/ rd[i].pc = "readline" /\ procs[rd[i].h] # "alive"
                  \/ rd[i].pc \in {"except", "print"}]_vars

\* C27: after stop() has cleared the running flag, a reader task appends at
\* most one further sample to the buffer, the one whose line it was reading
\* or processing at that time: a reader whose session has been stopped and
\* that appends has not appended since the stop.
C27_OneLateAppend ==
    [][\A i \in DOMAIN rd :
          (rd[i].pc = "append" /\ rd'[i].pc = "loop" /\ Stopped(i)) =>
              ~rd[i].late]_vars

\* C28: when the tool's output ends, or the reader task exits on an error,
\* while the session is running, the running flag stays true until stop()
\* is called.  With the flag true and no reader task alive, start() is a
\* no-op that launches no subprocess and no reader, and measure_idle passes
\* its not-started check, sleeps for the calibration and then fails with
\* the zero-samples error: nothing is appended while no reader is alive.
C28_DeadReader ==
    [][/\ (running /\ ~running') =>
              fg.pc = "idle" /\ fg'.pc = "stop_term"
       /\ (nApp' # nApp) => LiveReaders # {}
       /\ (LiveReaders = {} /\ rd' = rd) => LiveReaders' = {}
       /\ (running /\ LiveReaders = {} /\ fg.pc = "idle"
               /\ ret'.op = "start") =>
              /\ fg'.pc = "returned"
              /\ ret'.status = "ok"
              /\ ret'.err = "Monitor already running"
              /\ UNCHANGED <<running, process, thread, procs, rd, samples>>
       /\ (running /\ LiveReaders = {} /\ fg.pc = "idle"
               /\ (fg'.op = "measure_idle" \/ ret'.op = "measure_idle")) =>
              fg'.pc = "clr_lock"
       /\ (ret.op = "measure_idle" /\ running /\ LiveReaders = {}
               /\ nApp = nClr) =>
              /\ ret.slept
              /\ ret.status = "raised"
              /\ ret.err = "No power samples collected"
      ]_vars

\* the tool has ended by itself after one sample, its reader has left the
\* loop, the flag is still true, and measure_idle has slept and failed
C28_Witness ==
    /\ running
    /\ process # None /\ procs[process] = "exited"
    /\ LiveReaders = {}
    /\ nApp = 1
    /\ ret.op = "measure_idle"
    /\ ret.slept
    /\ ret.err = "No power samples collected"

\* C29: neither start() nor stop() removes a sample from the buffer: the
\* buffer changes only by the clear of clear_samples() or measure_idle()
\* and by an append, which drops the oldest sample when the buffer is full
\* and no other.  So the samples buffered before a stop() are what
\* get_samples() returns after it, and they are still in the buffer after
\* the next start().
C29_StartStopKeep ==
    [][/\ (samples' # samples) =>
              \/ /\ fg.pc = "clr_do"
                 /\ fg.op \in {"clear_samples", "measure_idle"}
                 /\ samples' = <<>>
              \/ /\ \E i \in DOMAIN rd : rd[i].pc = "append" /\ rd'[i].pc = "loop"
                 /\ Len(samples') >= 1
                 /\ LET old == IF Len(samples) < Capacity
                               THEN samples ELSE Tail(samples)
                    IN  SubSeq(samples', 1, Len(samples') - 1) = old
       /\ (fg' # fg /\ (fg.op \in {"start", "stop"}
                            \/ fg'.op \in {"start", "stop"}
                            \/ ret'.op \in {"start", "stop"})) =>
              samples' = samples
       /\ (ret.op = "get_samples" /\ ret.a = NoMatch /\ ret.b = NoMatch) =>
              ret.sel = ret.snap
      ]_vars

\* a sample of the first session is returned by get_samples() in the
\* second: the session was stopped and started again in between
C29_Witness ==
    /\ ret.op = "get_samples"
    /\ ret.a = NoMatch /\ ret.b = NoMatch
    /\ Len(procs) = 2 /\ running
    /\ procs[1] = "exited" /\ rd[1].pc = "done"
    /\ nApp = 1
    /\ Len(ret.sel) = 1 /\ ret.sel[1].n = 1
    /\ rd[2].pc = "loop"

\* C30: with two or more samples selected, the result of integrate_energy
\* depends on the selected samples and idle_mw only: every window that
\* selects the same samples of the buffer gives the same energy (the
\* integral runs from the first to the last selected sample, not to the
\* ends of the window); with exactly one sample selected the result is in
\* proportion to t_end - t_start.  (The windows compared are those that
\* hold the first selected sample; no other window selects the same.)
C30_WindowEdges ==
    (Integrated /\ ret.sel # <<>>) =>
        \A t_start \in {t \in CalcTimes : t <= ret.sel[1].t},
           t_end \in {t \in CalcTimes : t >= ret.sel[1].t} :
            LET sel == FilterSamples(ret.snap, t_start, t_end)
                energy_j == IntegrateEnergy(sel, t_start, t_end, ret.idle)
            IN  sel = ret.sel =>
                    /\ Len(sel) >= 2 => energy_j = ret.energy
                    /\ Len(sel) = 1 =>
                           energy_j * (ret.b - ret.a)
                               = ret.energy * (t_end - t_start)

\* two samples well inside the window, above the idle baseline: a narrower
\* window selects the same two
C30_Witness ==
    /\ Integrated
    /\ Len(ret.sel) = 2
    /\ ret.a < ret.sel[1].t
    /\ ret.sel[2].t < ret.b
    /\ ret.sel[1].p > ret.idle
    /\ ret.energy > 0

====
